---- MODULE Spec2Model ----
(***************************************************************************)
(* Model of src/code.py: the warehouse (Entrepot) with its FIFO stock, its *)
(* alert log limited to 3 entries and the list of closed parcels, and the  *)
(* parcel preparation (Conditionnement.preparer_colis).                    *)
(*                                                                         *)
(* A Python string is modelled as a sequence of one-character strings, so  *)
(* that split(','), strip(), upper(), isalpha(), the slice [1:] and int()  *)
(* are computed on the characters as the interpreter computes them.        *)
(***************************************************************************)
EXTENDS Integers, Sequences, FiniteSets, TLC

(***************************************************************************)
(* Characters and the string primitives used by the program                *)
(***************************************************************************)
Majuscules == {"A", "B", "C", "X"}

Minuscules == {"a", "b", "c", "x"}

Chiffres == {"0", "1", "2", "3", "5", "9"}

Blancs == {" "}

\* str.upper() on one character of the alphabet
upper_car(ch) ==
    CASE ch = "a" -> "A"
      [] ch = "b" -> "B"
      [] ch = "c" -> "C"
      [] ch = "x" -> "X"
      [] OTHER    -> ch

\* str.upper()
upper(s) == [i \in 1..Len(s) |-> upper_car(s[i])]

\* str.isalpha() on one character
isalpha(ch) == ch \in Majuscules \cup Minuscules

RECURSIVE lstrip(_)
lstrip(s) ==
    IF s # <<>> /\ Head(s) \in Blancs THEN lstrip(Tail(s)) ELSE s

RECURSIVE rstrip(_)
rstrip(s) ==
    IF s # <<>> /\ s[Len(s)] \in Blancs
    THEN rstrip(SubSeq(s, 1, Len(s) - 1))
    ELSE s

\* str.strip()
strip(s) == rstrip(lstrip(s))

\* str.split(','): always at least one piece; empty pieces are kept
RECURSIVE split_from(_, _, _)
split_from(s, i, courant) ==
    IF i > Len(s) THEN <<courant>>
    ELSE IF s[i] = "," THEN <<courant>> \o split_from(s, i + 1, <<>>)
    ELSE split_from(s, i + 1, Append(courant, s[i]))

split(s) == split_from(s, 1, <<>>)

\* [p.strip().upper() for p in chaine.split(',')]
nettoyer(chaine) ==
    LET pieces == split(chaine)
    IN  [i \in 1..Len(pieces) |-> upper(strip(pieces[i]))]

valeur_chiffre(ch) ==
    CASE ch = "0" -> 0
      [] ch = "1" -> 1
      [] ch = "2" -> 2
      [] ch = "3" -> 3
      [] ch = "5" -> 5
      [] ch = "9" -> 9

\* Digits with single underscores between digits, as int() accepts them.
RECURSIVE chiffres_valides(_, _)
chiffres_valides(s, i) ==
    IF i > Len(s) THEN TRUE
    ELSE IF s[i] \in Chiffres THEN chiffres_valides(s, i + 1)
    ELSE IF s[i] = "_"
         THEN /\ i > 1 /\ i < Len(s)
              /\ s[i - 1] \in Chiffres /\ s[i + 1] \in Chiffres
              /\ chiffres_valides(s, i + 1)
    ELSE FALSE

RECURSIVE valeur_decimale(_, _, _)
valeur_decimale(s, i, acc) ==
    IF i > Len(s) THEN acc
    ELSE IF s[i] = "_" THEN valeur_decimale(s, i + 1, acc)
    ELSE valeur_decimale(s, i + 1, 10 * acc + valeur_chiffre(s[i]))

\* int(s): surrounding blanks stripped, an optional sign, then digits.
\* The result is [ok |-> FALSE] where int() raises ValueError.
int(s) ==
    LET t      == strip(s)
        signe  == t # <<>> /\ Head(t) \in {"+", "-"}
        corps  == IF signe THEN Tail(t) ELSE t
    IN  IF corps = <<>> \/ ~chiffres_valides(corps, 1)
        THEN [ok |-> FALSE, val |-> 0]
        ELSE [ok  |-> TRUE,
              val |-> IF signe /\ Head(t) = "-"
                      THEN 0 - valeur_decimale(corps, 1, 0)
                      ELSE valeur_decimale(corps, 1, 0)]

\* try: volume = int(id_produit[1:])  except ValueError: volume = 0
volume_de(id_produit) ==
    LET r == int(Tail(id_produit))
    IN  IF r.ok THEN r.val ELSE 0

(***************************************************************************)
(* Entrepot                                                                *)
(***************************************************************************)
seuil_min == 2

CapaciteLog == 3

\* A stock unit is the product code itself (line 38); rang is the arrival
\* number of the unit among the units of its code, kept to tell units apart.
Aucune == [id |-> <<>>, rang |-> 0]

\* len(d[id]) without creating the entry (used by the properties only)
Quantite(st, id) == IF id \in DOMAIN st THEN Len(st[id]) ELSE 0

Present(seq, x) == \E i \in 1..Len(seq) : seq[i] = x

\* collections.defaultdict(collections.deque).__getitem__: reading a missing
\* key creates it with an empty deque.
acces(st, id) ==
    IF id \in DOMAIN st THEN st
    ELSE [k \in DOMAIN st \cup {id} |-> IF k = id THEN <<>> ELSE st[k]]

\* Variant: the removal is lost
remove_rien(seq, x) == seq

\* list.remove(x): removes the first occurrence
RECURSIVE remove(_, _)
remove(seq, x) ==
    IF seq = <<>> THEN <<>>
    ELSE IF Head(seq) = x THEN Tail(seq)
    ELSE <<Head(seq)>> \o remove(Tail(seq), x)

Avis(type, id, n) == [type |-> type, id |-> id, n |-> n]

Pas(id, accepte, unite, verifie, qte, avant, apres) ==
    [id |-> id, accepte |-> accepte, unite |-> unite, verifie |-> verifie,
     qte |-> qte, log_avant |-> avant, log_apres |-> apres]

\* Variant: the alert is resolved only above the threshold
seuil_atteint_strict(quantite) == quantite > seuil_min

\* quantite >= self.seuil_min in verifier_et_nettoyer_alerte
seuil_atteint(quantite) == quantite >= seuil_min

\* Variant: a product still under the threshold after an addition is logged
verifier_et_nettoyer_alerte_creation(e, id_produit) ==
    LET st       == acces(e.stock, id_produit)
        quantite == Len(st[id_produit])
    IN  IF Present(e.log_alertes, id_produit)
        THEN IF seuil_atteint(quantite)
             THEN [e EXCEPT !.stock = st,
                            !.log_alertes = remove(e.log_alertes, id_produit),
                            !.sortie = Append(e.sortie, Avis("RESOLU", id_produit, quantite))]
             ELSE [e EXCEPT !.stock = st,
                            !.sortie = Append(e.sortie, Avis("STOCK_BAS", id_produit, quantite))]
        ELSE IF quantite < seuil_min /\ Len(e.log_alertes) < CapaciteLog
             THEN [e EXCEPT !.stock = st,
                            !.log_alertes = Append(e.log_alertes, id_produit)]
             ELSE [e EXCEPT !.stock = st]

\* Variant: when an alert is resolved, the freed slot is given at once to a
\* product of the stock that is under the threshold and not logged
verifier_et_nettoyer_alerte_rattrapage(e, id_produit) ==
    LET st       == acces(e.stock, id_produit)
        quantite == Len(st[id_produit])
        reste    == remove(e.log_alertes, id_produit)
        attente  == {k \in DOMAIN st : Len(st[k]) < seuil_min /\ ~Present(reste, k)}
    IN  IF Present(e.log_alertes, id_produit)
        THEN IF seuil_atteint(quantite)
             THEN [e EXCEPT !.stock = st,
                            !.log_alertes = IF attente = {} THEN reste
                                            ELSE Append(reste, CHOOSE k \in attente : TRUE),
                            !.sortie = Append(e.sortie, Avis("RESOLU", id_produit, quantite))]
             ELSE [e EXCEPT !.stock = st,
                            !.sortie = Append(e.sortie, Avis("STOCK_BAS", id_produit, quantite))]
        ELSE [e EXCEPT !.stock = st]

\* Entrepot.verifier_et_nettoyer_alerte
verifier_et_nettoyer_alerte(e, id_produit) ==
    LET st       == acces(e.stock, id_produit)
        quantite == Len(st[id_produit])
    IN  IF Present(e.log_alertes, id_produit)
        THEN IF seuil_atteint(quantite)
             THEN [e EXCEPT !.stock = st,
                            !.log_alertes = remove(e.log_alertes, id_produit),
                            !.sortie = Append(e.sortie, Avis("RESOLU", id_produit, quantite))]
             ELSE [e EXCEPT !.stock = st,
                            !.sortie = Append(e.sortie, Avis("STOCK_BAS", id_produit, quantite))]
        ELSE [e EXCEPT !.stock = st]

\* Variant: the alert is raised only once the stock is empty
stock_suffisant_un(quantite) == quantite >= 1

\* len(self.stock[id_produit]) >= self.seuil_min in enregistrer_alerte
stock_suffisant(quantite) == quantite >= seuil_min

\* Variant: the presence test is forgotten
deja_notee_oubliee(log, id_produit) == FALSE

\* id_produit in self.log_alertes in enregistrer_alerte
deja_notee(log, id_produit) == Present(log, id_produit)

\* Variant: capacity test off by one
place_libre_large(log) == Len(log) <= CapaciteLog

\* len(self.log_alertes) < 3
place_libre(log) == Len(log) < CapaciteLog

\* Variant: a full log evicts its oldest entry to make room
enregistrer_alerte_eviction(e, id_produit) ==
    LET st == acces(e.stock, id_produit)
    IN  IF stock_suffisant(Len(st[id_produit])) THEN [e EXCEPT !.stock = st]
        ELSE IF deja_notee(e.log_alertes, id_produit) THEN [e EXCEPT !.stock = st]
        ELSE IF place_libre(e.log_alertes)
        THEN [e EXCEPT !.stock = st,
                       !.log_alertes = Append(e.log_alertes, id_produit),
                       !.sortie = Append(e.sortie, Avis("ALERTE", id_produit, 0))]
        ELSE [e EXCEPT !.stock = st,
                       !.log_alertes = Append(Tail(e.log_alertes), id_produit),
                       !.sortie = Append(e.sortie, Avis("LOG_PLEIN", id_produit, 0))]

\* Entrepot.enregistrer_alerte
enregistrer_alerte(e, id_produit) ==
    LET st == acces(e.stock, id_produit)
    IN  IF stock_suffisant(Len(st[id_produit])) THEN [e EXCEPT !.stock = st]
        ELSE IF deja_notee(e.log_alertes, id_produit) THEN [e EXCEPT !.stock = st]
        ELSE IF place_libre(e.log_alertes)
        THEN [e EXCEPT !.stock = st,
                       !.log_alertes = Append(e.log_alertes, id_produit),
                       !.sortie = Append(e.sortie, Avis("ALERTE", id_produit, 0))]
        ELSE [e EXCEPT !.stock = st,
                       !.sortie = Append(e.sortie, Avis("LOG_PLEIN", id_produit, 0))]

\* The format test of ajouter_lot
format_valide(id_produit) ==
    Len(id_produit) >= 2 /\ isalpha(id_produit[1])

\* Variant: the queue of the product is overwritten with the new unit
append_ecrase(file, unite) == <<unite>>

\* deque.append(): the unit goes to the tail of the queue
append(file, unite) == Append(file, unite)

\* One iteration of the loop of ajouter_lot
ajouter_produit(e, id_produit) ==
    IF format_valide(id_produit)
    THEN LET st     == acces(e.stock, id_produit)
             rang   == (IF id_produit \in DOMAIN e.inseres
                        THEN e.inseres[id_produit] ELSE 0) + 1
             unite  == [id |-> id_produit, rang |-> rang]
             e1     == [e EXCEPT
                          !.stock = [st EXCEPT ![id_produit] = append(@, unite)],
                          !.inseres = [k \in DOMAIN e.inseres \cup {id_produit} |->
                                         IF k = id_produit THEN rang ELSE e.inseres[k]]]
             e2     == verifier_et_nettoyer_alerte(e1, id_produit)
         IN  [e2 EXCEPT !.trace = Append(@,
                 Pas(id_produit, TRUE, unite, TRUE,
                     Quantite(e2.stock, id_produit), e.log_alertes, e2.log_alertes))]
    ELSE [e EXCEPT !.sortie = Append(@, Avis("INVALIDE", id_produit, 0)),
                   !.trace = Append(@,
                       Pas(id_produit, FALSE, Aucune, FALSE,
                           Quantite(e.stock, id_produit), e.log_alertes, e.log_alertes))]

\* Variant: the first rejected product ends the batch
RECURSIVE ajouter_boucle_abandon(_, _, _)
ajouter_boucle_abandon(e, produits, i) ==
    IF i > Len(produits) THEN e
    ELSE IF format_valide(produits[i])
         THEN ajouter_boucle_abandon(ajouter_produit(e, produits[i]), produits, i + 1)
         ELSE ajouter_produit(e, produits[i])

RECURSIVE ajouter_boucle(_, _, _)
ajouter_boucle(e, produits, i) ==
    IF i > Len(produits) THEN e
    ELSE ajouter_boucle(ajouter_produit(e, produits[i]), produits, i + 1)

\* Entrepot.ajouter_lot
ajouter_lot(e, chaine_produits) ==
    ajouter_boucle([e EXCEPT !.sortie = <<>>, !.trace = <<>>],
                   nettoyer(chaine_produits), 1)

\* Code point of a character
ord(ch) ==
    CASE ch = " " -> 32 [] ch = "+" -> 43 [] ch = "," -> 44 [] ch = "-" -> 45
      [] ch = "0" -> 48 [] ch = "1" -> 49 [] ch = "2" -> 50 [] ch = "3" -> 51
      [] ch = "5" -> 53 [] ch = "9" -> 57
      [] ch = "A" -> 65 [] ch = "B" -> 66 [] ch = "C" -> 67 [] ch = "X" -> 88
      [] ch = "_" -> 95
      [] ch = "a" -> 97 [] ch = "b" -> 98 [] ch = "c" -> 99 [] ch = "x" -> 120

\* s < t for Python strings
RECURSIVE avant(_, _)
avant(s, t) ==
    IF t = <<>> THEN FALSE
    ELSE IF s = <<>> THEN TRUE
    ELSE IF Head(s) # Head(t) THEN ord(Head(s)) < ord(Head(t))
    ELSE avant(Tail(s), Tail(t))

\* sorted(self.stock.items()): the keys in increasing order
RECURSIVE cles_triees(_)
cles_triees(cles) ==
    IF cles = {} THEN <<>>
    ELSE LET m == CHOOSE k \in cles : \A autre \in cles \ {k} : avant(k, autre)
         IN  <<m>> \o cles_triees(cles \ {m})

\* Entrepot.afficher_inventaire: the lines printed, one per key of the stock
afficher_inventaire(st) ==
    LET cles == cles_triees(DOMAIN st)
    IN  [i \in 1..Len(cles) |->
            [id |-> cles[i], quantite |-> Len(st[cles[i]]),
             bas |-> Len(st[cles[i]]) < seuil_min]]

(***************************************************************************)
(* Conditionnement                                                         *)
(***************************************************************************)
\* Variant: an article goes in front of the articles of the same volume
RECURSIVE inserer_trie_instable(_, _)
inserer_trie_instable(triee, x) ==
    IF triee = <<>> THEN <<x>>
    ELSE IF Head(triee).vol > x.vol
         THEN <<Head(triee)>> \o inserer_trie_instable(Tail(triee), x)
         ELSE <<x>> \o triee

\* Place of x in a list already sorted by volume descending: behind every
\* article whose volume is at least its own (equal volumes keep their order).
RECURSIVE inserer_trie(_, _)
inserer_trie(triee, x) ==
    IF triee = <<>> THEN <<x>>
    ELSE IF Head(triee).vol >= x.vol
         THEN <<Head(triee)>> \o inserer_trie(Tail(triee), x)
         ELSE <<x>> \o triee

RECURSIVE trier_boucle(_, _, _)
trier_boucle(liste, i, triee) ==
    IF i > Len(liste) THEN triee
    ELSE trier_boucle(liste, i + 1, inserer_trie(triee, liste[i]))

\* contenu_colis.sort(key=lambda x: x['vol'], reverse=True): a stable sort,
\* and reverse=True keeps the original order of equal keys.
trier_volume_decroissant(liste) == trier_boucle(liste, 1, <<>>)

\* Variant: blank entries are not skipped
est_vide_jamais(id_produit) == FALSE

\* if not id_produit: continue
est_vide(id_produit) == id_produit = <<>>

\* Variant: deque.pop(), which takes the newest unit
pop_droite(file) ==
    [unite |-> file[Len(file)], reste |-> SubSeq(file, 1, Len(file) - 1)]

\* deque.popleft(): the oldest unit and the units left
popleft(file) == [unite |-> Head(file), reste |-> Tail(file)]

\* Variant: the alert is checked only after a successful withdrawal
preparer_produit_alerte_si_pris(e, id_produit) ==
    IF est_vide(id_produit)
    THEN [e EXCEPT !.trace = Append(@,
              Pas(id_produit, FALSE, Aucune, FALSE,
                  Quantite(e.stock, id_produit), e.log_alertes, e.log_alertes))]
    ELSE LET disponible == id_produit \in DOMAIN e.stock /\ e.stock[id_produit] # <<>>
             unite == IF disponible THEN popleft(e.stock[id_produit]).unite ELSE Aucune
             e1 == IF disponible
                   THEN [e EXCEPT
                           !.contenu = Append(@, [id |-> id_produit,
                                                  vol |-> volume_de(id_produit)]),
                           !.stock = [@ EXCEPT ![id_produit] = popleft(@).reste]]
                   ELSE [e EXCEPT !.sortie = Append(@, Avis("RUPTURE", id_produit, 0))]
             e2 == IF disponible THEN enregistrer_alerte(e1, id_produit) ELSE e1
         IN  [e2 EXCEPT !.trace = Append(@,
                 Pas(id_produit, disponible, unite, TRUE,
                     Quantite(e2.stock, id_produit), e1.log_alertes, e2.log_alertes))]

\* Variant: a missing product is put in the parcel all the same
preparer_produit_rupture_emballee(e, id_produit) ==
    IF est_vide(id_produit)
    THEN [e EXCEPT !.trace = Append(@,
              Pas(id_produit, FALSE, Aucune, FALSE,
                  Quantite(e.stock, id_produit), e.log_alertes, e.log_alertes))]
    ELSE LET disponible == id_produit \in DOMAIN e.stock /\ e.stock[id_produit] # <<>>
             unite == IF disponible THEN popleft(e.stock[id_produit]).unite ELSE Aucune
             e1 == IF disponible
                   THEN [e EXCEPT
                           !.contenu = Append(@, [id |-> id_produit,
                                                  vol |-> volume_de(id_produit)]),
                           !.stock = [@ EXCEPT ![id_produit] = popleft(@).reste]]
                   ELSE [e EXCEPT
                           !.contenu = Append(@, [id |-> id_produit,
                                                  vol |-> volume_de(id_produit)]),
                           !.sortie = Append(@, Avis("RUPTURE", id_produit, 0))]
             e2 == enregistrer_alerte(e1, id_produit)
         IN  [e2 EXCEPT !.trace = Append(@,
                 Pas(id_produit, disponible, unite, TRUE,
                     Quantite(e2.stock, id_produit), e1.log_alertes, e2.log_alertes))]

\* One iteration of the loop of preparer_colis; e.contenu is contenu_colis.
preparer_produit(e, id_produit) ==
    IF est_vide(id_produit)
    THEN [e EXCEPT !.trace = Append(@,
              Pas(id_produit, FALSE, Aucune, FALSE,
                  Quantite(e.stock, id_produit), e.log_alertes, e.log_alertes))]
    ELSE LET disponible == id_produit \in DOMAIN e.stock /\ e.stock[id_produit] # <<>>
             unite == IF disponible THEN popleft(e.stock[id_produit]).unite ELSE Aucune
             e1 == IF disponible
                   THEN [e EXCEPT
                           !.contenu = Append(@, [id |-> id_produit,
                                                  vol |-> volume_de(id_produit)]),
                           !.stock = [@ EXCEPT ![id_produit] = popleft(@).reste]]
                   ELSE [e EXCEPT !.sortie = Append(@, Avis("RUPTURE", id_produit, 0))]
             e2 == enregistrer_alerte(e1, id_produit)
         IN  [e2 EXCEPT !.trace = Append(@,
                 Pas(id_produit, disponible, unite, TRUE,
                     Quantite(e2.stock, id_produit), e1.log_alertes, e2.log_alertes))]

RECURSIVE preparer_boucle(_, _, _)
preparer_boucle(e, liste_commande, i) ==
    IF i > Len(liste_commande) THEN e
    ELSE preparer_boucle(preparer_produit(e, liste_commande[i]), liste_commande, i + 1)

\* Variant: the parcel is put in front of the archive
archiver_devant(liste, colis) == <<colis>> \o liste

\* Variant: the archive is overwritten with the parcel
archiver_remplace(liste, colis) == <<colis>>

\* entrepot.liste_colis.append(contenu_colis)
archiver(liste, colis) == Append(liste, colis)

\* Variant: the parcel is archived whatever it holds
colis_toujours(contenu) == TRUE

\* if contenu_colis:
colis_non_vide(contenu) == contenu # <<>>

\* Conditionnement.preparer_colis
preparer_colis(e, chaine_commande) ==
    LET e0 == [e EXCEPT !.sortie = <<>>, !.trace = <<>>, !.contenu = <<>>]
        e1 == preparer_boucle(e0, nettoyer(chaine_commande), 1)
        contenu_colis == trier_volume_decroissant(e1.contenu)
    IN  IF colis_non_vide(contenu_colis)
        THEN [e1 EXCEPT !.contenu = contenu_colis,
                        !.liste_colis = archiver(@, contenu_colis),
                        !.sortie = Append(@, Avis("COLIS", <<>>, Len(contenu_colis)))]
        ELSE [e1 EXCEPT !.contenu = contenu_colis]

(***************************************************************************)
(* Inputs typed at the menu                                                *)
(***************************************************************************)
\* Bound of the model: number of menu commands after construction
MaxAppels == 3

\* "A3, A3, B5, B5, C1, C1, A2, A2"
chaine_defaut ==
    <<"A", "3", ",", " ", "A", "3", ",", " ", "B", "5", ",", " ", "B", "5", ",", " ",
      "C", "1", ",", " ", "C", "1", ",", " ", "A", "2", ",", " ", "A", "2">>

\* Pieces typed between the commas, before strip() and upper()
jA1 == <<"a", "1">>
jA2 == <<"A", "2">>
jA3 == <<"A", "3">>
jB5 == <<" ", "b", "5">>
jC1 == <<"C", "1">>
jC3 == <<"C", "3", " ">>
j9X == <<"9", "x">>
jAB == <<"A", "B">>
jAm5 == <<"A", "-", "5">>
jA == <<"A">>
jVide == <<>>
jBlanc == <<" ">>

RECURSIVE joindre(_)
joindre(js) ==
    IF Len(js) = 1 THEN js[1]
    ELSE js[1] \o <<",">> \o joindre(Tail(js))

\* Lines typed for "Produits a entrer"
ChainesLot ==
    { joindre(js) : js \in
        { <<jA1, jC3, jC3>>, <<jA3>>, <<jA3, jA3>>, <<jC1>>, <<jC1, jC1, jC1>>, <<jA2>>,
          <<j9X>>, <<jVide>>, <<jA>>, <<jAm5, jAB>>, <<jA2, j9X, jB5>>,
          <<jA1, jB5, jC3>>, <<jB5, jBlanc, jC1>>, <<j9X, jA3, jA, jA3>> } }

\* Lines typed for "Liste commande"
ChainesCommande ==
    { joindre(js) : js \in
        { <<jC1, jC1, jC1>>, <<jA1, jB5, jC3>>, <<jA3, jB5, jC1, jA2>>, <<jA2>>,
          <<jC1>>, <<j9X>>, <<jVide>>, <<jA3, jVide, jC3, jBlanc>>,
          <<jC3, jA3, jAm5, jAB>>, <<jA3, jA3>>, <<j9X, jAB>>, <<jA2, jC3, jA3, jB5>>,
          <<jAB, jA1, jAm5, jA3, jC3>>, <<jA2, jA2, j9X, j9X>> } }

(***************************************************************************)
(* State                                                                   *)
(***************************************************************************)
\* stock, log_alertes, liste_colis: the fields of Entrepot.
\* contenu_colis: the local list of the last preparer_colis, after its sort.
\* sortie: the notices printed by the last command, in order.
\* trace: one record per product of the last command (what was done with it,
\*        the quantity left and the alert log before and after).
\* inseres: per code, the number of units appended to the stock so far.
\* appel: the last command and the line typed; nb_appels: commands so far.
\* perdues: the codes for which a "log full" notice has been printed so far.
VARIABLES stock, log_alertes, liste_colis, inseres, sortie, trace, contenu_colis,
          appel, nb_appels, perdues

vars == <<stock, log_alertes, liste_colis, inseres, sortie, trace, contenu_colis,
          appel, nb_appels, perdues>>

\* Entrepot.__init__ before the default stock is loaded
entrepot_vide ==
    [stock |-> <<>>, log_alertes |-> <<>>, liste_colis |-> <<>>, inseres |-> <<>>,
     sortie |-> <<>>, trace |-> <<>>, contenu |-> <<>>]

\* Entrepot.initialiser_stock_defaut
initialiser_stock_defaut(e) == ajouter_lot(e, chaine_defaut)

entrepot ==
    [stock |-> stock, log_alertes |-> log_alertes, liste_colis |-> liste_colis,
     inseres |-> inseres, sortie |-> sortie, trace |-> trace, contenu |-> contenu_colis]

Devient(e) ==
    /\ stock' = e.stock
    /\ log_alertes' = e.log_alertes
    /\ liste_colis' = e.liste_colis
    /\ inseres' = e.inseres
    /\ sortie' = e.sortie
    /\ trace' = e.trace
    /\ contenu_colis' = e.contenu
    /\ perdues' = perdues \cup
          {e.sortie[i].id : i \in {j \in 1..Len(e.sortie) : e.sortie[j].type = "LOG_PLEIN"}}

Init ==
    LET e == initialiser_stock_defaut(entrepot_vide)
    IN  /\ stock = e.stock
        /\ log_alertes = e.log_alertes
        /\ liste_colis = e.liste_colis
        /\ inseres = e.inseres
        /\ sortie = e.sortie
        /\ trace = e.trace
        /\ contenu_colis = e.contenu
        /\ appel = [op |-> "initialiser_stock_defaut", chaine |-> chaine_defaut]
        /\ nb_appels = 0
        /\ perdues = {}

\* Menu choice 1
AjouterLot ==
    \E chaine \in ChainesLot :
        /\ nb_appels < MaxAppels
        /\ Devient(ajouter_lot(entrepot, chaine))
        /\ appel' = [op |-> "ajouter_lot", chaine |-> chaine]
        /\ nb_appels' = nb_appels + 1

\* Menu choice 2
PreparerColis ==
    \E chaine \in ChainesCommande :
        /\ nb_appels < MaxAppels
        /\ Devient(preparer_colis(entrepot, chaine))
        /\ appel' = [op |-> "preparer_colis", chaine |-> chaine]
        /\ nb_appels' = nb_appels + 1

Next == AjouterLot \/ PreparerColis

Spec == Init /\ [][Next]_vars

(***************************************************************************)
(* Properties                                                              *)
(***************************************************************************)
cC1 == <<"C", "1">>
cA3 == <<"A", "3">>
cA1 == <<"A", "1">>
cB5 == <<"B", "5">>
cC3 == <<"C", "3">>

SansDoublon(seq) == \A i, j \in 1..Len(seq) : seq[i] = seq[j] => i = j

\* a is obtained from b by deleting entries
RECURSIVE EstSousSuite(_, _)
EstSousSuite(a, b) ==
    IF a = <<>> THEN TRUE
    ELSE IF b = <<>> THEN FALSE
    ELSE IF Head(a) = Head(b) THEN EstSousSuite(Tail(a), Tail(b))
    ELSE EstSousSuite(a, Tail(b))

Sans(seq, x) == SelectSeq(seq, LAMBDA y : y # x)

NbAvis(type, id) ==
    Cardinality({i \in 1..Len(sortie) : sortie[i].type = type /\ sortie[i].id = id})

DernierEstLot == appel.op = "ajouter_lot"

DernierEstColis == appel.op = "preparer_colis"

\* A step of the last order in which the alert was due but the log was full
PasLogPlein(i) ==
    /\ trace[i].verifie
    /\ trace[i].qte < 2
    /\ ~Present(trace[i].log_avant, trace[i].id)
    /\ Len(trace[i].log_avant) = 3

\* C1: in every reachable state, and after every product of a batch or of an
\* order, the alert log holds at most 3 entries.
C1_LogAuPlusTrois ==
    /\ Len(log_alertes) <= 3
    /\ \A i \in 1..Len(trace) : Len(trace[i].log_apres) <= 3

\* C1 witness: the log is full and a further alert was refused in the last order.
C1_Temoin ==
    /\ DernierEstColis
    /\ Len(log_alertes) = 3
    /\ \E i \in 1..Len(sortie) : sortie[i].type = "LOG_PLEIN"

\* C2: when enregistrer_alerte is called for a product under the threshold that
\* is not in the log while the log holds 3 entries, the log stays exactly as it
\* was (same codes, same order) and a "log full" notice is printed for it.
C2_LogPleinInchange ==
    DernierEstColis =>
        /\ \A i \in 1..Len(trace) :
              PasLogPlein(i) =>
                  /\ trace[i].log_apres = trace[i].log_avant
                  /\ ~Present(trace[i].log_apres, trace[i].id)
        /\ \A i \in 1..Len(trace) :
              NbAvis("LOG_PLEIN", trace[i].id) =
                  Cardinality({j \in 1..Len(trace) :
                                  PasLogPlein(j) /\ trace[j].id = trace[i].id})

\* C2 witness: an order in which a fourth low product met a full log.
C2_Temoin ==
    /\ DernierEstColis
    /\ \E i \in 1..Len(trace) : PasLogPlein(i) /\ NbAvis("LOG_PLEIN", trace[i].id) >= 1

\* C3: the alert log never holds a product code twice, in any reachable state
\* and after any product of an order or of a batch.
C3_LogSansDoublon ==
    /\ SansDoublon(log_alertes)
    /\ \A i \in 1..Len(trace) : SansDoublon(trace[i].log_apres)

\* C3 witness: the same low product was requested twice in one order and is
\* in the log.
C3_Temoin ==
    /\ DernierEstColis
    /\ \E i, j \in 1..Len(trace) :
          /\ i < j
          /\ trace[i].id = trace[j].id
          /\ trace[i].verifie /\ trace[j].verifie
          /\ trace[i].qte < 2 /\ trace[j].qte < 2
          /\ Present(log_alertes, trace[i].id)

\* C4: an insertion by ajouter_lot that brings a logged product to 2 or more
\* removes it from the log; an insertion that leaves it under 2 keeps it; an
\* insertion of a product that is not (or no longer) in the log leaves the log
\* unchanged, so a product is removed at most once per batch.
C4_ResolutionUneFois ==
    DernierEstLot =>
        /\ \A i \in 1..Len(trace) :
              trace[i].accepte =>
                  IF Present(trace[i].log_avant, trace[i].id)
                  THEN IF trace[i].qte >= 2
                       THEN trace[i].log_apres = Sans(trace[i].log_avant, trace[i].id)
                       ELSE trace[i].log_apres = trace[i].log_avant
                  ELSE trace[i].log_apres = trace[i].log_avant
        /\ \A i, j \in 1..Len(trace) :
              /\ trace[i].id = trace[j].id
              /\ trace[i].log_apres # trace[i].log_avant
              /\ trace[j].log_apres # trace[j].log_avant
              => i = j
        /\ \A i \in 1..Len(trace) :
              NbAvis("RESOLU", trace[i].id) <= 1

\* C4 witness: one batch adds the same logged product three times: it stays in
\* the log at quantity 1, leaves it at quantity 2, and the third insertion
\* changes nothing.
C4_Temoin ==
    /\ DernierEstLot
    /\ \E i, j, k \in 1..Len(trace) :
          /\ i < j /\ j < k
          /\ trace[i].id = trace[j].id /\ trace[j].id = trace[k].id
          /\ trace[i].accepte /\ trace[i].qte < 2
          /\ Present(trace[i].log_apres, trace[i].id)
          /\ trace[j].qte >= 2
          /\ Present(trace[j].log_avant, trace[j].id)
          /\ ~Present(trace[j].log_apres, trace[j].id)
          /\ trace[k].accepte
          /\ trace[k].log_apres = trace[k].log_avant

\* C5: ajouter_lot never adds a code to the alert log: the log after the call
\* is a subsequence of the log before it.
C5_LotNAjoutePasAlerte ==
    [][appel'.op = "ajouter_lot" => EstSousSuite(log_alertes', log_alertes)]_vars

\* C5 witness: a batch left a product at quantity 1 and the product is not in
\* the log.
C5_Temoin ==
    /\ DernierEstLot
    /\ \E i \in 1..Len(trace) :
          /\ trace[i].accepte
          /\ trace[i].qte = 1
          /\ Quantite(stock, trace[i].id) = 1
          /\ ~Present(log_alertes, trace[i].id)

commande_C1x3 == <<"C", "1", ",", "C", "1", ",", "C", "1">>

\* The first command typed is the order "C1,C1,C1"
ColisC1x3SurStockNeuf ==
    /\ nb_appels = 1
    /\ appel = [op |-> "preparer_colis", chaine |-> commande_C1x3]

StockDefaut ==
    nb_appels = 0 =>
        /\ Quantite(stock, cA3) = 2
        /\ Quantite(stock, cC1) = 2
        /\ log_alertes = <<>>

RetraitsC1x3 ==
    /\ Len(trace) = 3
    /\ \A i \in 1..3 : trace[i].id = cC1 /\ trace[i].verifie
    /\ trace[1].accepte /\ trace[1].qte = 1
    /\ trace[2].accepte /\ trace[2].qte = 0
    /\ ~trace[3].accepte /\ trace[3].qte = 0
    /\ NbAvis("RUPTURE", cC1) = 1

\* C6 as stated: on the default stock, the order "C1,C1,C1" withdraws C1 twice
\* (quantity 1 then 0), the third is a backorder, and C1 enters the alert log
\* only at the check after the third product.
C6_AlerteApresTroisieme ==
    /\ StockDefaut
    /\ ColisC1x3SurStockNeuf =>
          /\ RetraitsC1x3
          /\ ~Present(trace[1].log_apres, cC1)
          /\ ~Present(trace[2].log_apres, cC1)
          /\ trace[3].log_apres = <<cC1>>

\* C6 amended: on the default stock, the order "C1,C1,C1" withdraws C1 twice
\* (quantity 1 then 0), the third is a backorder, and C1 enters the alert log
\* at the check after the first product, when its quantity is 1; the checks
\* after the second and third products leave the log as it is.
C6_AlerteApresPremier ==
    /\ StockDefaut
    /\ ColisC1x3SurStockNeuf =>
          /\ RetraitsC1x3
          /\ trace[1].log_avant = <<>>
          /\ trace[1].log_apres = <<cC1>>
          /\ trace[2].log_apres = <<cC1>>
          /\ trace[3].log_apres = <<cC1>>
          /\ log_alertes = <<cC1>>
          /\ NbAvis("ALERTE", cC1) = 1

\* C6 witness: the order "C1,C1,C1" was the first command and C1 is logged.
C6_Temoin ==
    /\ ColisC1x3SurStockNeuf
    /\ Quantite(stock, cC1) = 0
    /\ Present(log_alertes, cC1)

\* C7: in an order, the alert check runs after every non-blank product,
\* withdrawn or not: if its quantity is under 2, it is not in the log and the
\* log holds fewer than 3 entries, the product is in the log right after.
C7_AlerteApresChaqueProduit ==
    DernierEstColis =>
        \A i \in 1..Len(trace) :
            trace[i].id # <<>> =>
                /\ trace[i].verifie
                /\ ( /\ trace[i].qte < 2
                     /\ ~Present(trace[i].log_avant, trace[i].id)
                     /\ Len(trace[i].log_avant) < 3 )
                   => trace[i].log_apres = Append(trace[i].log_avant, trace[i].id)

\* C7 witness: one order logged a product that fails the format test of
\* ajouter_lot and a well-formed product that was out of stock.
C7_Temoin ==
    /\ DernierEstColis
    /\ \E i, j \in 1..Len(trace) :
          /\ ~trace[i].accepte /\ ~format_valide(trace[i].id) /\ trace[i].id # <<>>
          /\ ~Present(trace[i].log_avant, trace[i].id)
          /\ Present(trace[i].log_apres, trace[i].id)
          /\ ~trace[j].accepte /\ format_valide(trace[j].id)
          /\ ~Present(trace[j].log_avant, trace[j].id)
          /\ Present(trace[j].log_apres, trace[j].id)

\* C8 as stated: a code is a key of the stock only once ajouter_lot has
\* inserted a unit of it, and the inventory lists only such codes.
C8_ClesSeulementParAjout ==
    /\ \A id \in DOMAIN stock : id \in DOMAIN inseres /\ inseres[id] >= 1
    /\ \A i \in 1..Len(afficher_inventaire(stock)) :
          afficher_inventaire(stock)[i].id \in DOMAIN inseres

\* The articles of the last order in the order they were taken from stock
Extraits ==
    LET pris == SelectSeq(trace, LAMBDA t : t.accepte)
    IN  [i \in 1..Len(pris) |-> [id |-> pris[i].id, vol |-> volume_de(pris[i].id)]]

VolumeDecroissant(colis) ==
    \A i \in 1..Len(colis) - 1 : colis[i].vol >= colis[i + 1].vol

MemeOrdreParVolume(colis, extraits) ==
    /\ Len(colis) = Len(extraits)
    /\ \A k \in 1..Len(extraits) :
          SelectSeq(colis, LAMBDA a : a.vol = extraits[k].vol)
              = SelectSeq(extraits, LAMBDA a : a.vol = extraits[k].vol)

commande_A1B5C3 == <<"A", "1", ",", "B", "5", ",", "C", "3">>

\* C9: every archived parcel is ordered by volume descending; the parcel of the
\* last order holds the withdrawn articles, those of equal volume in the order
\* of their withdrawal; the order "A1,B5,C3" with all three in stock gives
\* [B5, C3, A1].
C9_TriVolumeStable ==
    /\ \A k \in 1..Len(liste_colis) : VolumeDecroissant(liste_colis[k])
    /\ DernierEstColis =>
          /\ VolumeDecroissant(contenu_colis)
          /\ MemeOrdreParVolume(contenu_colis, Extraits)
          /\ Extraits # <<>> => liste_colis[Len(liste_colis)] = contenu_colis
    /\ ( /\ DernierEstColis
         /\ appel.chaine = commande_A1B5C3
         /\ \A i \in 1..Len(trace) : trace[i].accepte )
       => contenu_colis = << [id |-> cB5, vol |-> 5], [id |-> cC3, vol |-> 3],
                             [id |-> cA1, vol |-> 1] >>

\* C9 witness: the archive holds [B5, C3, A1] made from "A1,B5,C3", and the
\* last parcel holds two different products of equal volume, which were
\* withdrawn in an order that is not the order of the sorted volumes.
C9_Temoin ==
    /\ DernierEstColis
    /\ \E k \in 1..Len(liste_colis) :
          liste_colis[k] = << [id |-> cB5, vol |-> 5], [id |-> cC3, vol |-> 3],
                              [id |-> cA1, vol |-> 1] >>
    /\ \E i \in 1..Len(contenu_colis) - 1 :
          /\ contenu_colis[i].vol = contenu_colis[i + 1].vol
          /\ contenu_colis[i].id # contenu_colis[i + 1].id
    /\ contenu_colis # Extraits

NbRuptures == Cardinality({i \in 1..Len(sortie) : sortie[i].type = "RUPTURE"})

\* C10: an order in which no product is withdrawn (all blank or unavailable)
\* appends nothing to the archive and prints exactly one backorder notice per
\* non-blank unavailable product; the archive never holds an empty parcel.
C10_CommandeVideNonArchivee ==
    /\ [][ ( /\ appel'.op = "preparer_colis"
             /\ \A i \in 1..Len(trace') : ~trace'[i].accepte )
           => /\ liste_colis' = liste_colis
              /\ Cardinality({j \in 1..Len(sortie') : sortie'[j].type = "RUPTURE"})
                    = Cardinality({i \in 1..Len(trace') : trace'[i].id # <<>>})
              /\ \A j \in 1..Len(sortie') : sortie'[j].type # "COLIS"
              /\ \A i \in 1..Len(trace') :
                    Cardinality({j \in 1..Len(sortie') :
                        sortie'[j].type = "RUPTURE" /\ sortie'[j].id = trace'[i].id})
                    = Cardinality({j \in 1..Len(trace') :
                        trace'[j].id = trace'[i].id /\ trace'[i].id # <<>>}) ]_vars
    /\ [](\A k \in 1..Len(liste_colis) : liste_colis[k] # <<>>)

\* C10 witness: the last order held a blank and two unavailable products,
\* nothing was withdrawn and two backorder notices were printed.
C10_Temoin ==
    /\ DernierEstColis
    /\ contenu_colis = <<>>
    /\ \A i \in 1..Len(trace) : ~trace[i].accepte
    /\ NbRuptures >= 2

\* The products of a command, as its steps recorded them
IdsTrace(tr) == [n \in 1..Len(tr) |-> tr[n].id]

Occurrences(seq, x) == Cardinality({i \in 1..Len(seq) : seq[i] = x})

Codes(st1, st2) == DOMAIN st1 \cup DOMAIN st2

\* C11: a call of ajouter_lot with one single code that passes the format test
\* raises the quantity of that code by exactly 1 and leaves the quantity of
\* every other code as it was.
C11_AjoutUnitaire ==
    [][ ( /\ appel'.op = "ajouter_lot"
          /\ Len(nettoyer(appel'.chaine)) = 1
          /\ format_valide(nettoyer(appel'.chaine)[1]) )
        => LET id == nettoyer(appel'.chaine)[1]
           IN  /\ Quantite(stock', id) = Quantite(stock, id) + 1
               /\ \A autre \in Codes(stock, stock') \ {id} :
                     Quantite(stock', autre) = Quantite(stock, autre) ]_vars

\* C11 witness: a one-code batch was added to a product that had units already
\* while other products were in stock.
C11_Temoin ==
    /\ DernierEstLot
    /\ Len(nettoyer(appel.chaine)) = 1
    /\ format_valide(nettoyer(appel.chaine)[1])
    /\ Quantite(stock, nettoyer(appel.chaine)[1]) = 3
    /\ Cardinality(DOMAIN stock) >= 4

\* C12: in ajouter_lot a product that fails the format test is skipped with
\* one notice: it does not become a key of the stock, it changes neither the
\* alert log nor the archive, and every well-formed product of the same line,
\* before or after it, is still inserted (once per occurrence).
C12_FormatInvalideIgnore ==
    [][ appel'.op = "ajouter_lot"
        => LET produits == IdsTrace(trace')
           IN  /\ produits = nettoyer(appel'.chaine)
               /\ liste_colis' = liste_colis
               /\ \A i \in 1..Len(produits) :
                     /\ ~format_valide(produits[i]) =>
                           /\ ~trace'[i].accepte
                           /\ trace'[i].log_apres = trace'[i].log_avant
                           /\ produits[i] \in DOMAIN stock' => produits[i] \in DOMAIN stock
                           /\ Quantite(stock', produits[i]) = Quantite(stock, produits[i])
                           /\ Cardinality({j \in 1..Len(sortie') :
                                 sortie'[j].type = "INVALIDE" /\ sortie'[j].id = produits[i]})
                              = Occurrences(produits, produits[i])
                     /\ format_valide(produits[i]) =>
                           Quantite(stock', produits[i])
                             = Quantite(stock, produits[i]) + Occurrences(produits, produits[i])
               /\ (\A i \in 1..Len(produits) : ~format_valide(produits[i]))
                     => stock' = stock /\ log_alertes' = log_alertes ]_vars

\* C12 witness: the last batch held a rejected product between two accepted
\* ones, and none of its rejected products is a key of the stock.
C12_Temoin ==
    /\ DernierEstLot
    /\ \E i, j, k \in 1..Len(trace) :
          /\ i < j /\ j < k
          /\ trace[i].accepte /\ ~trace[j].accepte /\ trace[k].accepte
          /\ Quantite(stock, trace[k].id) >= 1
    /\ \A j \in 1..Len(trace) : ~trace[j].accepte => trace[j].id \notin DOMAIN stock

\* Value of a string read as an unsigned decimal number, 0 when it is not one
DecimalNonSigne(s) ==
    IF s # <<>> /\ \A i \in 1..Len(s) : s[i] \in Chiffres
    THEN valeur_decimale(s, 1, 0)
    ELSE 0

\* C13 as stated: the volume of every archived article is its code from index
\* 1 on read as an unsigned decimal number, 0 when it is not one; so every
\* volume is a non-negative integer, also for "A-5" and "AB".
C13_VolumeNonSigne ==
    \A k \in 1..Len(liste_colis) :
        \A i \in 1..Len(liste_colis[k]) :
            /\ liste_colis[k][i].vol = DecimalNonSigne(Tail(liste_colis[k][i].id))
            /\ liste_colis[k][i].vol >= 0

\* The log after enregistrer_alerte for a product with quantity qte
AlerteAttendue(log, id, qte) ==
    IF qte < 2 /\ ~Present(log, id) /\ Len(log) < 3
    THEN Append(log, id)
    ELSE log

\* C14 as stated: in an order, enregistrer_alerte is called for every entry of
\* the line, blank entries included, with the cleaned entry as key.
C14_AlertePourToutJeton ==
    DernierEstColis =>
        /\ Len(trace) = Len(nettoyer(appel.chaine))
        /\ \A i \in 1..Len(trace) :
              /\ trace[i].id = nettoyer(appel.chaine)[i]
              /\ trace[i].verifie
              /\ trace[i].log_apres
                    = AlerteAttendue(trace[i].log_avant, trace[i].id, trace[i].qte)

\* C14 amended: in an order, enregistrer_alerte is called for every non-blank
\* entry of the line, whatever its format, with the cleaned entry as key; a
\* blank entry is skipped before the alert check, so it leaves the log as it
\* is and the empty code is never in the log.
C14_AlertePourJetonNonVide ==
    /\ ~Present(log_alertes, <<>>)
    /\ DernierEstColis =>
          /\ Len(trace) = Len(nettoyer(appel.chaine))
          /\ \A i \in 1..Len(trace) :
                /\ trace[i].id = nettoyer(appel.chaine)[i]
                /\ IF trace[i].id = <<>>
                   THEN /\ ~trace[i].verifie
                        /\ trace[i].log_apres = trace[i].log_avant
                        /\ NbAvis("ALERTE", <<>>) + NbAvis("LOG_PLEIN", <<>>)
                              + NbAvis("RUPTURE", <<>>) = 0
                   ELSE /\ trace[i].verifie
                        /\ trace[i].log_apres
                              = AlerteAttendue(trace[i].log_avant, trace[i].id, trace[i].qte)

\* C14 witness: the last order ended with a blank entry met while the log had
\* a free slot, and it also held a non-blank entry that was logged.
C14_Temoin ==
    /\ DernierEstColis
    /\ Len(trace) >= 2
    /\ trace[Len(trace)].id = <<>>
    /\ Len(trace[Len(trace)].log_avant) < 3
    /\ \E i \in 1..Len(trace) :
          /\ trace[i].id # <<>>
          /\ trace[i].log_apres = Append(trace[i].log_avant, trace[i].id)

\* C15: a code whose alert was refused by a full log and that is not in the
\* log enters it neither by ajouter_lot nor by an order that does not name it:
\* it enters only by an order that names it and leaves it under 2, and such an
\* order does log it unless the log is full.
C15_AlertePerdueNonRejouee ==
    [][ \A c \in perdues :
          ~Present(log_alertes, c) =>
              /\ Present(log_alertes', c) =>
                    /\ appel'.op = "preparer_colis"
                    /\ Present(nettoyer(appel'.chaine), c)
                    /\ Quantite(stock', c) < 2
              /\ ( /\ appel'.op = "preparer_colis"
                   /\ Present(nettoyer(appel'.chaine), c)
                   /\ Quantite(stock', c) < 2 )
                 => Present(log_alertes', c) \/ Len(log_alertes') = 3 ]_vars

\* C15 witness: a code refused earlier by a full log was named again by the
\* last order, after a slot had been freed, and that order logged it.
C15_Temoin ==
    /\ DernierEstColis
    /\ \E c \in perdues :
          /\ Present(log_alertes, c)
          /\ Present(nettoyer(appel.chaine), c)
          /\ NbAvis("ALERTE", c) = 1
          /\ NbAvis("LOG_PLEIN", c) = 0

EstPrefixe(a, b) == Len(a) <= Len(b) /\ SubSeq(b, 1, Len(a)) = a

\* C16: the archive only grows at its end: after every command the former
\* archive is a prefix of the new one, an order appends at most one parcel and
\* ajouter_lot appends none.
C16_ArchiveAjoutSeul ==
    [][ /\ EstPrefixe(liste_colis, liste_colis')
        /\ Len(liste_colis') <= Len(liste_colis) + 1
        /\ appel'.op = "ajouter_lot" => liste_colis' = liste_colis ]_vars

\* C16 witness: a third parcel, different from the first, was just archived.
C16_Temoin ==
    /\ DernierEstColis
    /\ Len(liste_colis) = 3
    /\ liste_colis[3] = contenu_colis
    /\ liste_colis[1] # liste_colis[3]

\* Number of accepted steps for the product of step i before step i
RangDansAppel(tr, i) ==
    Cardinality({j \in 1..(i - 1) : tr[j].accepte /\ tr[j].id = tr[i].id})

NbAcceptes(tr, id) ==
    Cardinality({j \in 1..Len(tr) : tr[j].accepte /\ tr[j].id = id})

File(st, id) == IF id \in DOMAIN st THEN st[id] ELSE <<>>

\* C17: the stock of a code is a FIFO queue: every queue holds its units in
\* their order of arrival, ajouter_lot puts each new unit at the tail, and the
\* successive withdrawals of an order take the units from the head, oldest
\* first.
C17_FileFIFO ==
    /\ [](\A id \in DOMAIN stock :
            \A i \in 1..Len(stock[id]) - 1 :
                stock[id][i].rang < stock[id][i + 1].rang)
    /\ [][ /\ appel'.op = "preparer_colis" =>
                \A i \in 1..Len(trace') :
                    trace'[i].accepte =>
                        /\ trace'[i].unite
                              = File(stock, trace'[i].id)[RangDansAppel(trace', i) + 1]
                        /\ File(stock', trace'[i].id)
                              = SubSeq(File(stock, trace'[i].id),
                                       NbAcceptes(trace', trace'[i].id) + 1,
                                       Len(File(stock, trace'[i].id)))
           /\ appel'.op = "ajouter_lot" =>
                \A i \in 1..Len(trace') :
                    trace'[i].accepte =>
                        /\ EstPrefixe(File(stock, trace'[i].id), File(stock', trace'[i].id))
                        /\ File(stock', trace'[i].id)[Len(File(stock, trace'[i].id))
                                                     + RangDansAppel(trace', i) + 1]
                              = trace'[i].unite ]_vars

\* C17 witness: one order withdrew the first, second and third unit of a code,
\* in that order.
C17_Temoin ==
    /\ DernierEstColis
    /\ \E i, j, k \in 1..Len(trace) :
          /\ i < j /\ j < k
          /\ trace[i].accepte /\ trace[j].accepte /\ trace[k].accepte
          /\ trace[i].id = trace[j].id /\ trace[j].id = trace[k].id
          /\ trace[i].unite.rang = 1
          /\ trace[j].unite.rang = 2
          /\ trace[k].unite.rang = 3

\* C18: after every command, every code of the alert log has a quantity
\* strictly under 2.
C18_LogSousSeuil ==
    \A i \in 1..Len(log_alertes) : Quantite(stock, log_alertes[i]) < 2

\* C18 witness: the last batch resolved one alert and left another logged code
\* at quantity 1.
C18_Temoin ==
    /\ DernierEstLot
    /\ \E i \in 1..Len(sortie) : sortie[i].type = "RESOLU"
    /\ \E i \in 1..Len(trace) :
          /\ trace[i].accepte
          /\ Present(log_alertes, trace[i].id)
          /\ Quantite(stock, trace[i].id) = 1

RECURSIVE NbArchives(_, _)
NbArchives(liste, id) ==
    IF liste = <<>> THEN 0
    ELSE Cardinality({i \in 1..Len(Head(liste)) : Head(liste)[i].id = id})
           + NbArchives(Tail(liste), id)

NbInseres(id) == IF id \in DOMAIN inseres THEN inseres[id] ELSE 0

CodesArchives ==
    UNION { {liste_colis[k][i].id : i \in 1..Len(liste_colis[k])} :
                k \in 1..Len(liste_colis) }

\* C19: for every code, the number of units inserted by ajouter_lot so far
\* (default stock included) is its quantity in stock plus the number of its
\* articles in the archived parcels.
C19_UnitesConservees ==
    \A id \in DOMAIN stock \cup DOMAIN inseres \cup CodesArchives :
        NbInseres(id) = Quantite(stock, id) + NbArchives(liste_colis, id)

\* C19 witness: two parcels are archived and a code has units both in stock
\* and in the archive, three having been inserted.
C19_Temoin ==
    /\ Len(liste_colis) >= 2
    /\ \E id \in DOMAIN stock :
          /\ NbInseres(id) = 3
          /\ Quantite(stock, id) >= 1
          /\ NbArchives(liste_colis, id) >= 1
          /\ NbArchives(<<liste_colis[1]>>, id) >= 1

Min(a, b) == IF a <= b THEN a ELSE b

\* C20: for an order in which code c occurs k times and has quantity q before,
\* the parcel holds exactly min(k, q) articles of c, the quantity of c after
\* is q - min(k, q), exactly k - min(k, q) backorder notices are printed for
\* c, and the quantity of every code the order does not name is unchanged.
C20_RetraitMinKQ ==
    [][ appel'.op = "preparer_colis" =>
          LET commande == IdsTrace(trace')
          IN  /\ commande = nettoyer(appel'.chaine)
              /\ \A n \in 1..Len(commande) :
                    commande[n] # <<>> =>
                        LET c == commande[n]
                            k == Occurrences(commande, c)
                            q == Quantite(stock, c)
                        IN  /\ Cardinality({i \in 1..Len(contenu_colis') :
                                               contenu_colis'[i].id = c}) = Min(k, q)
                            /\ Quantite(stock', c) = q - Min(k, q)
                            /\ Quantite(stock', c) >= 0
                            /\ Cardinality({j \in 1..Len(sortie') :
                                   sortie'[j].type = "RUPTURE" /\ sortie'[j].id = c})
                                 = k - Min(k, q)
              /\ \A autre \in Codes(stock, stock') :
                    ~Present(commande, autre) =>
                        Quantite(stock', autre) = Quantite(stock, autre)
              /\ Len(contenu_colis') =
                    Cardinality({n \in 1..Len(trace') : trace'[n].accepte})
              /\ contenu_colis' # <<>> =>
                    liste_colis'[Len(liste_colis')] = contenu_colis' ]_vars

\* C20 witness: the last order named a code more often than it had units: some
\* were withdrawn, the others were backorders, and other codes kept their stock.
C20_Temoin ==
    /\ DernierEstColis
    /\ \E i, j \in 1..Len(trace) :
          /\ trace[i].id = trace[j].id
          /\ trace[i].accepte /\ ~trace[j].accepte /\ trace[j].verifie
          /\ NbAvis("RUPTURE", trace[i].id) >= 1
          /\ Quantite(stock, trace[i].id) = 0
    /\ \E autre \in DOMAIN stock :
          ~Present(nettoyer(appel.chaine), autre) /\ Quantite(stock, autre) = 2

====
